---- MODULE Spec2Model ----
(***************************************************************************)
(* Weather ETL pipeline of christos-plm/weather-dashboard.                 *)
(*                                                                         *)
(* The model follows src/etl_pipeline.py (WeatherETLPipeline),             *)
(* src/weather_collector.py (WeatherCollector: the HTTP fetch, the parse   *)
(* and the SQLite store) and src/data_transformer.py                       *)
(* (WeatherDataTransformer: clean, validate, enrich, duplicate query).     *)
(*                                                                         *)
(* Encoding of Python values                                               *)
(*   text     <<"str", s>>  with s a sequence of one-character strings     *)
(*   number   <<"num", n>>  with n the value in thousandths (25.6 = 25600) *)
(*   None     <<"none">>                                                   *)
(*   dict     a record over every key the code uses; a key that is not in  *)
(*            the dict holds <<"absent">>                                  *)
(*   'YYYY-MM-DD'            <<"date", d>>, d the day number               *)
(*   'YYYY-MM-DD HH:MM:SS'   <<"ts", d, s>>, s the second of day d         *)
(* Columns latitude, longitude, pressure_mb, visibility_km and uv_index    *)
(* are carried from the response to the row untouched by any decision of   *)
(* the pipeline; the model leaves them out.                                *)
(***************************************************************************)
EXTENDS Integers, Sequences, FiniteSets, TLC

VARIABLES
    store,      \* rows of table weather_data
    nextId,     \* next AUTOINCREMENT id of the table
    clock,      \* the wall clock at its last reading, in seconds
    pc,         \* per pipeline instance: where its run_etl call stands
    stats,      \* per instance: self.stats
    entry,      \* per instance: stats and GETs when the current run_etl was entered
    queue,      \* per instance: locations of run_batch_etl still to process
    batchLen,   \* per instance: len(locations) of the current / last batch
    call,       \* per instance: the method the caller invoked last
    batchEntry, \* per instance: stats, calls and GETs when the batch was entered
    req,        \* per instance: the location the current run_etl was called with
    data,       \* per instance: what extract_weather_data returned
    rec,        \* per instance: (record, is_valid, issues) of the transform stage
    ret,        \* per instance: what the last run_etl call returned
    last,       \* per instance: how the last run_etl call ended
    tally,      \* per instance: run_etl calls since __init__, by how they ended
    gets,       \* per instance: HTTP GETs issued since __init__
    test        \* the last call of one function on its own: name, arguments, result

vars == <<store, nextId, clock, pc, stats, entry, queue, batchLen, call,
          batchEntry, req, data, rec, ret, last, tally, gets, test>>

(***************************************************************************)
(* Bounds of the model.                                                    *)
(***************************************************************************)
\* run_etl calls made on the shared store, all instances together
MaxCalls == 2
\* longest list handed to run_batch_etl
MaxBatch == 2
\* most rows save_weather_data is called for before a function is tried
MaxRows == 2

(***************************************************************************)
(* Python values.                                                          *)
(***************************************************************************)
None == <<"none">>

Absent == <<"absent">>

Num(n) == <<"num", n>>

Str(s) == <<"str", s>>

Label(l) == <<"label", l>>

Date(d) == <<"date", d>>

Timestamp(d, s) == <<"ts", d, s>>

IsNone(v) == v[1] = "none"

\* key in dict
Has(d, k) == d[k][1] # "absent"

\* d.get(k, default)
Get(d, k, default) == IF Has(d, k) THEN d[k] ELSE default

\* bool(v) of a text-or-None value: None and '' are falsy
Truthy(v) == v[1] = "str" /\ Len(v[2]) > 0

LowerChars == <<"a","b","c","d","e","f","g","h","i","j","k","l","m",
                "n","o","p","q","r","s","t","u","v","w","x","y","z">>

UpperChars == <<"A","B","C","D","E","F","G","H","I","J","K","L","M",
                "N","O","P","Q","R","S","T","U","V","W","X","Y","Z">>

\* the upper-case letter of each lower-case letter, and the reverse
UpperOf == [c \in {LowerChars[k] : k \in 1..Len(LowerChars)} |->
               UpperChars[CHOOSE k \in 1..Len(LowerChars) : LowerChars[k] = c]]

LowerOf == [c \in {UpperChars[k] : k \in 1..Len(UpperChars)} |->
               LowerChars[CHOOSE k \in 1..Len(UpperChars) : UpperChars[k] = c]]

IsLetter(c) == c \in DOMAIN UpperOf \/ c \in DOMAIN LowerOf

ToUpper(c) == IF c \in DOMAIN UpperOf THEN UpperOf[c] ELSE c

ToLower(c) == IF c \in DOMAIN LowerOf THEN LowerOf[c] ELSE c

IsSpace(c) == c = " "

\* str.lower()
Lower(s) == [k \in 1..Len(s) |-> ToLower(s[k])]

\* str.lstrip() and str.rstrip()
RECURSIVE LStrip(_)
LStrip(s) == IF Len(s) = 0 \/ ~IsSpace(s[1]) THEN s ELSE LStrip(Tail(s))

RECURSIVE RStrip(_)
RStrip(s) == IF Len(s) = 0 \/ ~IsSpace(s[Len(s)]) THEN s
             ELSE RStrip(SubSeq(s, 1, Len(s) - 1))

\* variant: one whitespace character is dropped at each end
StripOne(s) ==
    LET left == IF Len(s) > 0 /\ IsSpace(s[1]) THEN Tail(s) ELSE s
    IN  IF Len(left) > 0 /\ IsSpace(left[Len(left)])
        THEN SubSeq(left, 1, Len(left) - 1) ELSE left

\* str.strip(): drop the whitespace at both ends
Strip(s) == RStrip(LStrip(s))

\* str.title(): a letter that follows a non-letter is upper-cased, any other
\* letter lower-cased; afterLetter tells whether a letter precedes s
RECURSIVE TitleFrom(_, _)
TitleFrom(s, afterLetter) ==
    IF Len(s) = 0 THEN <<>>
    ELSE <<IF afterLetter THEN ToLower(s[1]) ELSE ToUpper(s[1])>>
         \o TitleFrom(Tail(s), IsLetter(s[1]))

Title(s) == TitleFrom(s, FALSE)

\* int(x) of a number: truncation toward zero
IntOf(n) == IF n >= 0 THEN (n \div 1000) * 1000 ELSE -(((-n) \div 1000) * 1000)

\* round(float(x), 1): the nearest tenth; a value half way between two tenths
\* goes to the even one
Round1(n) ==
    LET a == IF n >= 0 THEN n ELSE -n
        q == a \div 100
        r == a % 100
        m == IF r < 50 THEN q
             ELSE IF r > 50 THEN q + 1
             ELSE IF q % 2 = 0 THEN q ELSE q + 1
    IN  IF n >= 0 THEN m * 100 ELSE -(m * 100)

Abs(n) == IF n >= 0 THEN n ELSE -n

Unknown == Str(<<"U","n","k","n","o","w","n">>)

\* a weather record with no key
EmptyRecord ==
    [city |-> Absent, country |-> Absent, date |-> Absent, temp_c |-> Absent,
     feels_like_c |-> Absent, condition |-> Absent, humidity |-> Absent,
     wind_speed_kmph |-> Absent, timestamp |-> Absent,
     heat_category |-> Absent, comfort_level |-> Absent, wind_category |-> Absent]

(***************************************************************************)
(* data_transformer.py: validation.                                        *)
(***************************************************************************)
Issue(msg, arg) == [msg |-> msg, arg |-> arg]

\* variant: the limits themselves are outside the range
validate_temperature_open(temp_c) ==
    IF IsNone(temp_c) THEN <<FALSE, Issue("Temperature is missing", None)>>
    ELSE IF temp_c[2] <= -90000 \/ temp_c[2] >= 60000
         THEN <<FALSE, Issue("Temperature is outside reasonable range", temp_c)>>
         ELSE <<TRUE, Issue("Valid", None)>>

\* validate_temperature: (valid, message)
validate_temperature(temp_c) ==
    IF IsNone(temp_c) THEN <<FALSE, Issue("Temperature is missing", None)>>
    ELSE IF temp_c[2] < -90000 \/ temp_c[2] > 60000
         THEN <<FALSE, Issue("Temperature is outside reasonable range", temp_c)>>
         ELSE <<TRUE, Issue("Valid", None)>>

validate_humidity(humidity) ==
    IF IsNone(humidity) THEN <<FALSE, Issue("Humidity is missing", None)>>
    ELSE IF humidity[2] < 0 \/ humidity[2] > 100000
         THEN <<FALSE, Issue("Humidity is invalid", humidity)>>
         ELSE <<TRUE, Issue("Valid", None)>>

validate_wind_speed(wind_kmph) ==
    IF IsNone(wind_kmph) THEN <<FALSE, Issue("Wind speed is missing", None)>>
    ELSE IF wind_kmph[2] < 0 \/ wind_kmph[2] > 500000
         THEN <<FALSE, Issue("Wind speed seems invalid", wind_kmph)>>
         ELSE <<TRUE, Issue("Valid", None)>>

required_fields == <<"city", "country", "temp_c", "humidity", "condition">>

\* field not in record or record[field] is None
IsMissing(record, field) == ~Has(record, field) \/ IsNone(record[field])

\* the "Missing required field" issues of the first k required fields, in order
RECURSIVE MissingIssues(_, _)
MissingIssues(record, k) ==
    IF k = 0 THEN <<>>
    ELSE IF IsMissing(record, required_fields[k])
         THEN Append(MissingIssues(record, k - 1),
                     Issue("Missing required field", required_fields[k]))
         ELSE MissingIssues(record, k - 1)

\* the issue of one range check, as a list of zero or one issue
CheckIssues(check) == IF check[1] THEN <<>> ELSE <<check[2]>>

\* variant: the difference is taken without abs()
FeelsLikeIssuesSigned(record) ==
    IF Has(record, "feels_like_c") /\ Has(record, "temp_c")
    THEN LET diff == record.feels_like_c[2] - record.temp_c[2]
         IN  IF diff > 30000
             THEN <<Issue("Feels like temperature differs from actual", Num(diff))>>
             ELSE <<>>
    ELSE <<>>

\* the feels-like check, lines 85-88
FeelsLikeIssues(record) ==
    IF Has(record, "feels_like_c") /\ Has(record, "temp_c")
    THEN LET diff == Abs(record.feels_like_c[2] - record.temp_c[2])
         IN  IF diff > 30000
             THEN <<Issue("Feels like temperature differs from actual", Num(diff))>>
             ELSE <<>>
    ELSE <<>>

\* variant: is_valid is settled before the feels-like check, which only
\* adds its issue
validate_weather_record_soft(record) ==
    LET missing == MissingIssues(record, Len(required_fields))
    IN  IF Len(missing) > 0 THEN <<FALSE, missing>>
        ELSE LET issues ==
                     CheckIssues(validate_temperature(Get(record, "temp_c", None)))
                  \o CheckIssues(validate_humidity(Get(record, "humidity", None)))
                  \o CheckIssues(validate_wind_speed(Get(record, "wind_speed_kmph", None)))
             IN  <<Len(issues) = 0, issues \o FeelsLikeIssues(record)>>

\* variant: no early return, the range checks run on a partial record too
validate_weather_record_checks_all(record) ==
    LET missing == MissingIssues(record, Len(required_fields))
        checks ==
             CheckIssues(validate_temperature(Get(record, "temp_c", None)))
          \o CheckIssues(validate_humidity(Get(record, "humidity", None)))
          \o CheckIssues(validate_wind_speed(Get(record, "wind_speed_kmph", None)))
        issues == IF Len(missing) > 0 THEN missing \o checks
                  ELSE checks \o FeelsLikeIssues(record)
    IN  <<Len(issues) = 0, issues>>

\* validate_weather_record: <<is_valid, issues>>
validate_weather_record(record) ==
    LET missing == MissingIssues(record, Len(required_fields))
    IN  IF Len(missing) > 0 THEN <<FALSE, missing>>
        ELSE LET issues ==
                     CheckIssues(validate_temperature(Get(record, "temp_c", None)))
                  \o CheckIssues(validate_humidity(Get(record, "humidity", None)))
                  \o CheckIssues(validate_wind_speed(Get(record, "wind_speed_kmph", None)))
                  \o FeelsLikeIssues(record)
             IN  <<Len(issues) = 0, issues>>

(***************************************************************************)
(* data_transformer.py: cleaning and derived fields.                       *)
(***************************************************************************)
\* strip and title-case a text that is present and not empty
CleanTitle(v) == IF Truthy(v) THEN Str(Title(Strip(v[2]))) ELSE v

\* strip a text that is present and not empty
CleanStrip(v) == IF Truthy(v) THEN Str(Strip(v[2])) ELSE v

\* round(float(x), 1) of a number that is present and not None
CleanRound(v) == IF v[1] = "num" THEN Num(Round1(v[2])) ELSE v

\* int(x) of a number that is present and not None
CleanInt(v) == IF v[1] = "num" THEN Num(IntOf(v[2])) ELSE v

\* clean_weather_record: a cleaned copy of the record
clean_weather_record(record) ==
    [record EXCEPT !.city = CleanTitle(@),
                   !.country = CleanStrip(@),
                   !.temp_c = CleanRound(@),
                   !.feels_like_c = CleanRound(@),
                   !.wind_speed_kmph = CleanRound(@),
                   !.humidity = CleanInt(@),
                   !.condition = CleanTitle(@)]

\* variant: each threshold value falls in the lower class
heat_category_above(temp) ==
    IF temp > 35000 THEN "Extreme Heat"
    ELSE IF temp > 30000 THEN "Hot"
    ELSE IF temp > 20000 THEN "Warm"
    ELSE IF temp > 10000 THEN "Mild"
    ELSE IF temp > 0 THEN "Cool"
    ELSE "Cold"

heat_category(temp) ==
    IF temp >= 35000 THEN "Extreme Heat"
    ELSE IF temp >= 30000 THEN "Hot"
    ELSE IF temp >= 20000 THEN "Warm"
    ELSE IF temp >= 10000 THEN "Mild"
    ELSE IF temp >= 0 THEN "Cool"
    ELSE "Cold"

\* variant: the cold rule is tried before the uncomfortable one
comfort_level_cold_first(temp, humidity) ==
    IF temp >= 20000 /\ temp <= 26000 /\ humidity >= 30000 /\ humidity <= 60000
    THEN "Comfortable"
    ELSE IF temp < 10000 THEN "Cold"
    ELSE IF temp > 30000 \/ humidity > 70000 THEN "Uncomfortable"
    ELSE "Moderate"

comfort_level(temp, humidity) ==
    IF temp >= 20000 /\ temp <= 26000 /\ humidity >= 30000 /\ humidity <= 60000
    THEN "Comfortable"
    ELSE IF temp > 30000 \/ humidity > 70000 THEN "Uncomfortable"
    ELSE IF temp < 10000 THEN "Cold"
    ELSE "Moderate"

wind_category(wind) ==
    IF wind < 12000 THEN "Calm"
    ELSE IF wind < 30000 THEN "Breezy"
    ELSE IF wind < 50000 THEN "Windy"
    ELSE "Very Windy"

\* calculate_derived_fields: a copy of the record with the three labels
calculate_derived_fields(record) ==
    [record EXCEPT
        !.heat_category =
            IF Has(record, "temp_c")
            THEN Label(heat_category(record.temp_c[2])) ELSE @,
        !.comfort_level =
            IF Has(record, "temp_c") /\ Has(record, "humidity")
            THEN Label(comfort_level(record.temp_c[2], record.humidity[2])) ELSE @,
        !.wind_category =
            IF Has(record, "wind_speed_kmph")
            THEN Label(wind_category(record.wind_speed_kmph[2])) ELSE @]

(***************************************************************************)
(* The upstream weather source: what one HTTP GET may answer.              *)
(***************************************************************************)
Rome == Str(<<"r","o","m","e">>)

Italy == Str(<<"I","T">>)

Sunny == Str(<<" ","s","u","n","n","y">>)

\* first element of "current_condition": plausible values, and a temperature
\* outside the validator's range
CurrentGood == [temp_C |-> 25, FeelsLikeC |-> 26, humidity |-> 65,
                windspeedKmph |-> 10, weatherDesc |-> Sunny]

CurrentHot == [temp_C |-> 61, FeelsLikeC |-> 62, humidity |-> 65,
               windspeedKmph |-> 10, weatherDesc |-> Sunny]

\* "current_condition" in the body: absent, or one of the two
Currents == {Absent, <<"dict", CurrentGood>>, <<"dict", CurrentHot>>}

\* "nearest_area" in the body: absent, a list of one area, an empty list
AreaLists == {Absent,
              <<"list", <<[areaName |-> Rome, country |-> Italy]>> >>,
              <<"list", <<>> >>}

\* JSON bodies
Bodies == {[current_condition |-> c, nearest_area |-> a, _verified_location |-> Absent] :
              c \in Currents, a \in AreaLists}

NoBody == [current_condition |-> Absent, nearest_area |-> Absent,
           _verified_location |-> Absent]

\* status 200 with a JSON body, a status other than 200, a timeout, a
\* connection failure, a body that is not JSON
Responses ==
    {[kind |-> "ok", body |-> b] : b \in Bodies} \cup
    {[kind |-> k, body |-> NoBody] :
        k \in {"status", "timeout", "connection", "badjson"}}

\* the empty text ''
Empty == Str(<<>>)

\* a "nearest_area" entry whose area name and country are empty texts
UnnamedAreaList == <<"list", <<[areaName |-> Empty, country |-> Empty]>> >>

\* the country of another place called Rome
Georgia == Str(<<" ","U","S">>)

\* a "nearest_area" entry in a country other than the requested one
ElsewhereAreaList == <<"list", <<[areaName |-> Rome, country |-> Georgia]>> >>

\* answers of an upstream that resolves the request to another place:
\* status 200 with an unnamed area or an area in another country, or a
\* status other than 200
ElsewhereResponses ==
    {[kind |-> "ok",
      body |-> [current_condition |-> c, nearest_area |-> a,
                _verified_location |-> Absent]] :
        c \in Currents, a \in {UnnamedAreaList, ElsewhereAreaList}} \cup
    {[kind |-> "status", body |-> NoBody]}

\* what callers pass to run_etl: city, country, lat, lon.  The location goes
\* into the request URL; the record is built from what the upstream answers.
Locations ==
    { [city |-> Rome, country |-> Italy, lat |-> None, lon |-> None] }

(***************************************************************************)
(* weather_collector.py: fetch, parse, store.                              *)
(***************************************************************************)
Fail == [ok |-> FALSE]

Ok(v) == [ok |-> TRUE, value |-> v]

\* the "," of the f-strings that build the location
Comma == Str(<<",">>)

\* variant: coordinates are used when both are truthy (`if lat and lon`)
LocationKeyTruthy(city, country, lat, lon) ==
    IF Truthy(lat) /\ Truthy(lon) THEN <<lat, Comma, lon>>
    ELSE IF Truthy(country) THEN <<city, Comma, country>>
    ELSE <<city>>

\* the location string of the request URL, as the parts the f-string joins
LocationKey(city, country, lat, lon) ==
    IF ~IsNone(lat) /\ ~IsNone(lon) THEN <<lat, Comma, lon>>
    ELSE IF Truthy(country) THEN <<city, Comma, country>>
    ELSE <<city>>

\* the area dict {} of the default [{}]
NoArea == [areaName |-> Absent, country |-> Absent]

\* variant: the status code of the response is not looked at
fetch_weather_any_status(city, country, lat, lon, response) ==
    LET body == response.body
        areas == IF Has(body, "nearest_area")
                 THEN body.nearest_area[2] ELSE <<NoArea>>
    IN  IF Len(areas) = 0 THEN Fail
        ELSE Ok([body EXCEPT !._verified_location =
                    <<"dict", [city |-> Get(areas[1], "areaName", Unknown),
                               country |-> Get(areas[1], "country", Unknown)]>>])

\* fetch_weather, line 95: the location-mismatch warning is printed
LocationMismatch(country, returned_country) ==
    Truthy(country) /\ Lower(returned_country[2]) # Lower(country[2])

\* fetch_weather after requests.get returned `response` (or raised): the JSON
\* body with the verified location, or None
fetch_weather(city, country, lat, lon, response) ==
    IF response.kind # "ok" THEN Fail
    ELSE LET body == response.body
             areas == IF Has(body, "nearest_area")
                      THEN body.nearest_area[2] ELSE <<NoArea>>
         IN  IF Len(areas) = 0 THEN Fail
             ELSE LET nearest == areas[1]
                      returned_city == Get(nearest, "areaName", Unknown)
                      returned_country == Get(nearest, "country", Unknown)
                  IN  Ok([body EXCEPT !._verified_location =
                             <<"dict", [city |-> returned_city,
                                        country |-> returned_country]>>])

\* float('25') in thousandths
Float(s) == s * 1000

\* datetime.now().strftime('%Y-%m-%d')
FormatDate(now) == Date(now \div 86400)

\* datetime.now().strftime('%Y-%m-%d %H:%M:%S')
FormatTimestamp(now) == Timestamp(now \div 86400, now % 86400)

\* SQLite strftime('%s', timestamp): seconds since the epoch
StrftimeS(ts) == ts[2] * 86400 + ts[3]

\* the dict {} of data.get('_verified_location', {})
NoVerified == [city |-> Absent, country |-> Absent]

\* variant: the record is given the requested city and country
parse_weather_data_requested(d, requested_city, requested_country, now) ==
    IF ~Has(d, "current_condition") THEN Fail
    ELSE LET current == d.current_condition[2]
         IN  Ok([EmptyRecord EXCEPT
                    !.city = requested_city,
                    !.country = IF Truthy(requested_country)
                                THEN requested_country ELSE Unknown,
                    !.date = FormatDate(now),
                    !.temp_c = Num(Float(current.temp_C)),
                    !.feels_like_c = Num(Float(current.FeelsLikeC)),
                    !.condition = current.weatherDesc,
                    !.humidity = Num(Float(current.humidity)),
                    !.wind_speed_kmph = Num(Float(current.windspeedKmph)),
                    !.timestamp = FormatTimestamp(now)])

\* parse_weather_data at wall-clock time `now`: the record, or None
parse_weather_data(d, requested_city, requested_country, now) ==
    IF ~Has(d, "current_condition") THEN Fail
    ELSE LET current == d.current_condition[2]
             verified == IF Has(d, "_verified_location")
                         THEN d._verified_location[2] ELSE NoVerified
         IN  Ok([EmptyRecord EXCEPT
                    !.city = Get(verified, "city", requested_city),
                    !.country = Get(verified, "country",
                                    IF Truthy(requested_country)
                                    THEN requested_country ELSE Unknown),
                    !.date = FormatDate(now),
                    !.temp_c = Num(Float(current.temp_C)),
                    !.feels_like_c = Num(Float(current.FeelsLikeC)),
                    !.condition = current.weatherDesc,
                    !.humidity = Num(Float(current.humidity)),
                    !.wind_speed_kmph = Num(Float(current.windspeedKmph)),
                    !.timestamp = FormatTimestamp(now)])

\* SQL equality: NULL equals nothing
SqlEq(a, b) == ~IsNone(a) /\ ~IsNone(b) /\ a = b

\* UNIQUE(city, country, date, timestamp)
SameKey(row, record) ==
    /\ SqlEq(row.city, record.city)
    /\ SqlEq(row.country, record.country)
    /\ row.date = record.date
    /\ row.timestamp = record.timestamp

\* variant: the table without its UNIQUE(city, country, date, timestamp)
IntegrityErrorNotNull(rows, record) ==
    IsNone(record.city) \/ IsNone(record.country)

\* the INSERT raises sqlite3.IntegrityError: a NOT NULL column is NULL, or the
\* UNIQUE constraint fails
IntegrityError(rows, record) ==
    \/ IsNone(record.city)
    \/ IsNone(record.country)
    \/ \E row \in rows : SameKey(row, record)

\* the row an INSERT of the record adds
NewRow(id, record) ==
    [id |-> id, city |-> record.city, country |-> record.country,
     date |-> record.date, temp_c |-> record.temp_c,
     feels_like_c |-> record.feels_like_c, condition |-> record.condition,
     humidity |-> record.humidity, wind_speed_kmph |-> record.wind_speed_kmph,
     timestamp |-> record.timestamp]

\* variant: INSERT OR IGNORE, a conflicting insert is dropped without error
save_weather_data_ignore(rows, id, record, storeError) ==
    IF storeError
    THEN [success |-> FALSE, rows |-> rows, caught |-> "store_error"]
    ELSE IF IntegrityError(rows, record)
    THEN [success |-> TRUE, rows |-> rows, caught |-> "none"]
    ELSE [success |-> TRUE, rows |-> rows \cup {NewRow(id, record)},
          caught |-> "none"]

\* variant: INSERT OR REPLACE, a conflicting row gives way to the new one
save_weather_data_replace(rows, id, record, storeError) ==
    IF storeError
    THEN [success |-> FALSE, rows |-> rows, caught |-> "store_error"]
    ELSE [success |-> TRUE,
          rows |-> {row \in rows : ~SameKey(row, record)} \cup {NewRow(id, record)},
          caught |-> "none"]

\* save_weather_data: the INSERT of the record as row `id`.  IntegrityError
\* and every other exception of execute or commit (storeError) are caught
\* and reported as False.
save_weather_data(rows, id, record, storeError) ==
    IF storeError
    THEN [success |-> FALSE, rows |-> rows, caught |-> "store_error"]
    ELSE IF IntegrityError(rows, record)
    THEN [success |-> FALSE, rows |-> rows, caught |-> "rejected"]
    ELSE [success |-> TRUE, rows |-> rows \cup {NewRow(id, record)},
          caught |-> "none"]

\* the one-hour window of the duplicate query
DupWindowSecs == 3600

\* variant: the SELECT without the window, matching the exact timestamp only
DuplicateRowsExact(rows, record) ==
    {row \in rows :
        /\ SqlEq(row.city, record.city)
        /\ SqlEq(row.country, record.country)
        /\ row.date = record.date
        /\ row.timestamp = record.timestamp}

\* variant: the SELECT without `AND date = ?`
DuplicateRowsAnyDate(rows, record) ==
    {row \in rows :
        /\ SqlEq(row.city, record.city)
        /\ SqlEq(row.country, record.country)
        /\ Abs(StrftimeS(row.timestamp) - StrftimeS(record.timestamp))
               < DupWindowSecs}

\* the rows the SELECT of check_for_duplicate matches
DuplicateRows(rows, record) ==
    {row \in rows :
        /\ SqlEq(row.city, record.city)
        /\ SqlEq(row.country, record.country)
        /\ row.date = record.date
        /\ Abs(StrftimeS(row.timestamp) - StrftimeS(record.timestamp))
               < DupWindowSecs}

\* check_for_duplicate: the pairs (is_duplicate, existing_id) it can return;
\* fetchone() hands back one of the matching rows
check_for_duplicate(rows, record) ==
    IF DuplicateRows(rows, record) = {}
    THEN {<<FALSE, None>>}
    ELSE {<<TRUE, Num(row.id)>> : row \in DuplicateRows(rows, record)}

(***************************************************************************)
(* etl_pipeline.py: WeatherETLPipeline.  Two pipeline instances share the   *)
(* database file (a command-line batch and a web request, or two web        *)
(* requests: src/app.py constructs one pipeline per request).               *)
(***************************************************************************)
Instances == {1, 2}

\* instance 1 is a long-lived pipeline (the command line: single runs and
\* batches); instance 2 is the pipeline of a web request, which calls run_etl
BatchInstances == {1}

\* the pipeline a web request constructs for itself and calls run_etl on
\* once (src/app.py, add_city and refresh_city)
RequestInstances == Instances \ BatchInstances

\* wall-clock seconds that may pass before the clock is read again
Elapsed == {0, 1800, 3600}

\* how a run_etl call can end
Outcomes == {"fetch_failed", "parse_failed", "invalid", "duplicate",
             "invalid_duplicate", "rejected", "store_error", "loaded", "raised"}

ZeroTally == [o \in Outcomes |-> 0]

\* sum of f over the finite set S
RECURSIVE SumOver(_, _)
SumOver(f, S) ==
    IF S = {} THEN 0
    ELSE LET x == CHOOSE y \in S : TRUE IN f[x] + SumOver(f, S \ {x})

\* run_etl calls instance i has completed
Calls(i) == SumOver(tally[i], Outcomes)

\* the model starts at 23:30:00 of day 0
StartClock == 86400 - 1800

ZeroStats == [attempted |-> 0, succeeded |-> 0, failed |-> 0,
              validation_errors |-> 0, duplicates |-> 0]

NoLocation == [city |-> None, country |-> None, lat |-> None, lon |-> None]

NoRecord == [record |-> EmptyRecord, is_valid |-> FALSE, issues |-> <<>>]

\* run_etl calls instance i has made, is making or still has to make
Reserved(i) == Calls(i) + Len(queue[i])
               + (IF pc[i] \in {"extract", "transform", "dupcheck", "load"}
                  THEN 1 ELSE 0)

TotalReserved ==
    LET r == [i \in Instances |-> Reserved(i)] IN SumOver(r, Instances)

\* any('Duplicate' in issue for issue in issues)
AnyDuplicate(issues) ==
    \E k \in 1..Len(issues) : issues[k].msg = "Duplicate of record"

\* no function has been called on its own
NoTest == [fn |-> "none", args |-> <<>>, result |-> <<>>]

Init ==
    /\ store = {}
    /\ nextId = 1
    /\ clock = StartClock
    /\ pc = [i \in Instances |-> "idle"]
    /\ stats = [i \in Instances |-> ZeroStats]
    /\ entry = [i \in Instances |-> [stats |-> ZeroStats, gets |-> 0]]
    /\ queue = [i \in Instances |-> <<>>]
    /\ batchLen = [i \in Instances |-> 0]
    /\ call = [i \in Instances |-> "none"]
    /\ batchEntry = [i \in Instances |-> [stats |-> ZeroStats, tally |-> ZeroTally, gets |-> 0]]
    /\ req = [i \in Instances |-> NoLocation]
    /\ data = [i \in Instances |-> NoBody]
    /\ rec = [i \in Instances |-> NoRecord]
    /\ ret = [i \in Instances |-> "none"]
    /\ last = [i \in Instances |-> "none"]
    /\ tally = [i \in Instances |-> ZeroTally]
    /\ gets = [i \in Instances |-> 0]
    /\ test = NoTest

\* run_etl, line 110: the call is counted
EnterStats(st) == [st EXCEPT !.attempted = @ + 1]

\* run_etl is entered for location loc
Enter(i, loc) ==
    /\ entry' = [entry EXCEPT ![i] = [stats |-> stats[i], gets |-> gets[i]]]
    /\ stats' = [stats EXCEPT ![i] = EnterStats(@)]
    /\ req' = [req EXCEPT ![i] = loc]
    /\ ret' = [ret EXCEPT ![i] = "none"]
    /\ last' = [last EXCEPT ![i] = "none"]
    /\ pc' = [pc EXCEPT ![i] = "extract"]

\* variant: a failed extraction is tried again instead of ending the call
ReturnRetry(i, value, outcome) ==
    /\ ret' = [ret EXCEPT ![i] = value]
    /\ last' = [last EXCEPT ![i] = outcome]
    /\ tally' = [tally EXCEPT ![i][outcome] = @ + 1]
    /\ req' = [req EXCEPT ![i] = IF outcome = "fetch_failed" THEN @ ELSE NoLocation]
    /\ data' = [data EXCEPT ![i] = NoBody]
    /\ rec' = [rec EXCEPT ![i] = NoRecord]
    /\ pc' = [pc EXCEPT ![i] = IF outcome = "fetch_failed" /\ tally[i][outcome] = 0
                               THEN "extract"
                               ELSE IF Len(queue[i]) > 0 THEN "sleep" ELSE "idle"]
    /\ UNCHANGED <<queue, call>>

\* run_etl returns `value`; inside run_batch_etl the loop sleeps when
\* locations remain (i < len(locations)) and prints the summary otherwise
Return(i, value, outcome) ==
    /\ ret' = [ret EXCEPT ![i] = value]
    /\ last' = [last EXCEPT ![i] = outcome]
    /\ tally' = [tally EXCEPT ![i][outcome] = @ + 1]
    /\ req' = [req EXCEPT ![i] = NoLocation]
    /\ data' = [data EXCEPT ![i] = NoBody]
    /\ rec' = [rec EXCEPT ![i] = NoRecord]
    /\ pc' = [pc EXCEPT ![i] = IF Len(queue[i]) > 0 THEN "sleep" ELSE "idle"]
    /\ UNCHANGED <<queue, call>>

\* an exception leaves run_etl, and run_batch_etl when it is the caller
Raise(i) ==
    /\ ret' = [ret EXCEPT ![i] = "raised"]
    /\ last' = [last EXCEPT ![i] = "raised"]
    /\ tally' = [tally EXCEPT ![i]["raised"] = @ + 1]
    /\ req' = [req EXCEPT ![i] = NoLocation]
    /\ data' = [data EXCEPT ![i] = NoBody]
    /\ rec' = [rec EXCEPT ![i] = NoRecord]
    /\ pc' = [pc EXCEPT ![i] = "idle"]
    /\ queue' = [queue EXCEPT ![i] = <<>>]
    /\ UNCHANGED call

\* a caller invokes run_etl(city, country, lat, lon) on instance i
CallRunEtl(i, loc) ==
    /\ pc[i] = "idle"
    /\ TotalReserved < MaxCalls
    /\ i \in RequestInstances => Calls(i) = 0
    /\ call' = [call EXCEPT ![i] = "run_etl"]
    /\ Enter(i, loc)
    /\ UNCHANGED <<test, store, nextId, clock, queue, batchLen, batchEntry,
                   data, rec, tally, gets>>

\* the lists of at most n locations
Lists(n) == UNION {[1..k -> Locations] : k \in 0..n}

\* a caller invokes run_batch_etl(locations) on instance i: the loop enters
\* run_etl for the first location, or ends at once on an empty list
CallRunBatchEtl(i, locations) ==
    /\ i \in BatchInstances
    /\ pc[i] = "idle"
    /\ TotalReserved + Len(locations) <= MaxCalls
    /\ batchLen' = [batchLen EXCEPT ![i] = Len(locations)]
    /\ batchEntry' = [batchEntry EXCEPT ![i] =
                        [stats |-> stats[i], tally |-> tally[i], gets |-> gets[i]]]
    /\ call' = [call EXCEPT ![i] = "run_batch_etl"]
    /\ IF Len(locations) = 0
       THEN UNCHANGED <<pc, stats, entry, req, ret, last, queue>>
       ELSE /\ Enter(i, Head(locations))
            /\ queue' = [queue EXCEPT ![i] = Tail(locations)]
    /\ UNCHANGED <<test, store, nextId, clock, data, rec, tally, gets>>

\* run_batch_etl, lines 170-172 and the next iteration: time.sleep(delay),
\* then run_etl for the next location
Sleep(i) ==
    /\ pc[i] = "sleep"
    /\ Enter(i, Head(queue[i]))
    /\ queue' = [queue EXCEPT ![i] = Tail(@)]
    /\ UNCHANGED <<test, store, nextId, clock, batchLen, call, batchEntry,
                   data, rec, tally, gets>>

\* variant: the early return of the extract stage without its count
ExtractFailedUncounted(st) == st

\* run_etl, lines 120-122: no data, the location failed
ExtractFailedStats(st) == [st EXCEPT !.failed = @ + 1]

\* EXTRACT: extract_weather_data -> fetch_weather issues one GET and the
\* upstream answers with `response`
Extract(i, response) ==
    /\ pc[i] = "extract"
    /\ gets' = [gets EXCEPT ![i] = @ + 1]
    /\ LET fetched == fetch_weather(req[i].city, req[i].country,
                                    req[i].lat, req[i].lon, response)
       IN  IF fetched.ok
           THEN /\ data' = [data EXCEPT ![i] = fetched.value]
                /\ pc' = [pc EXCEPT ![i] = "transform"]
                /\ UNCHANGED <<stats, ret, last, tally, req, rec, call, queue>>
           ELSE /\ stats' = [stats EXCEPT ![i] = ExtractFailedStats(@)]
                /\ Return(i, "False", "fetch_failed")
    /\ UNCHANGED <<test, store, nextId, clock, entry, batchLen, batchEntry>>

\* run_etl, lines 126-128: no record, the location failed
ParseFailedStats(st) == [st EXCEPT !.failed = @ + 1]

\* TRANSFORM, steps 1-4 of transform_weather_data: parse (the clock is read),
\* clean, validate, derive
Transform(i, elapsed) ==
    /\ pc[i] = "transform"
    /\ clock' = clock + elapsed
    /\ \E parsed \in {parse_weather_data(data[i], req[i].city, req[i].country,
                                          clock + elapsed)} :
          IF ~parsed.ok
          THEN /\ stats' = [stats EXCEPT ![i] = ParseFailedStats(@)]
               /\ Return(i, "False", "parse_failed")
          ELSE \E cleaned \in {clean_weather_record(parsed.value)} :
               \E checked \in {validate_weather_record(cleaned)} :
                  /\ rec' = [rec EXCEPT ![i] =
                                [record |-> calculate_derived_fields(cleaned),
                                 is_valid |-> checked[1],
                                 issues |-> checked[2]]]
                  /\ pc' = [pc EXCEPT ![i] = "dupcheck"]
                  /\ UNCHANGED <<stats, ret, last, tally, req, data, call, queue>>
    /\ UNCHANGED <<test, store, nextId, entry, batchLen, batchEntry, gets>>

\* variant: an invalid record is counted as failed too
ClassifyStatsFailed(st, is_valid, issues) ==
    LET s1 == IF ~is_valid
              THEN [st EXCEPT !.validation_errors = @ + 1, !.failed = @ + 1]
              ELSE st
    IN  IF AnyDuplicate(issues) THEN [s1 EXCEPT !.duplicates = @ + 1] ELSE s1

\* run_etl, lines 130-134: the sub-classifications of a record not loaded
ClassifyStats(st, is_valid, issues) ==
    LET s1 == IF ~is_valid THEN [st EXCEPT !.validation_errors = @ + 1] ELSE st
    IN  IF AnyDuplicate(issues) THEN [s1 EXCEPT !.duplicates = @ + 1] ELSE s1

\* variant: load_weather_data without the duplicate test of lines 91-94
ShouldSaveIfValid(is_valid, issues) == is_valid

\* load_weather_data, lines 87-94: the record goes on to the INSERT
ShouldSave(is_valid, issues) == is_valid /\ ~AnyDuplicate(issues)

\* the outcome logged for a record load_weather_data skipped
SkipOutcome(is_valid, issues) ==
    IF ~is_valid /\ AnyDuplicate(issues) THEN "invalid_duplicate"
    ELSE IF ~is_valid THEN "invalid"
    ELSE "duplicate"

\* TRANSFORM, step 5: check_for_duplicate queries the store; then run_etl
\* classifies the record and load_weather_data decides whether to insert.
\* The query has no exception handler: a store error leaves run_etl.
CheckDuplicate(i, storeError) ==
    /\ pc[i] = "dupcheck"
    /\ IF storeError
       THEN /\ Raise(i)
            /\ UNCHANGED stats
       ELSE \E dup \in (IF DuplicateRows(store, rec[i].record) = {}
                        THEN {None}
                        ELSE {Num(row.id) : row \in DuplicateRows(store, rec[i].record)}) :
            LET issues == IF IsNone(dup) THEN rec[i].issues
                          ELSE Append(rec[i].issues, Issue("Duplicate of record", dup))
                is_valid == rec[i].is_valid
            IN  /\ stats' = [stats EXCEPT ![i] = ClassifyStats(@, is_valid, issues)]
                /\ IF ShouldSave(is_valid, issues)
                   THEN /\ rec' = [rec EXCEPT ![i].issues = issues]
                        /\ pc' = [pc EXCEPT ![i] = "load"]
                        /\ UNCHANGED <<ret, last, tally, req, data, call, queue>>
                   ELSE Return(i, "False", SkipOutcome(is_valid, issues))
    /\ UNCHANGED <<test, store, nextId, clock, entry, batchLen, batchEntry, gets>>

\* variant: a successful load is not counted
SavedStatsNone(st) == st

\* run_etl, lines 139-140
SavedStats(st) == [st EXCEPT !.succeeded = @ + 1]

\* LOAD: load_weather_data calls save_weather_data and run_etl counts a
\* success; a caught error leaves the store and the counters as they were
Save(i, storeError) ==
    /\ pc[i] = "load"
    /\ \E saved \in {save_weather_data(store, nextId, rec[i].record, storeError)} :
          /\ store' = saved.rows
          /\ IF saved.success
             THEN /\ nextId' = nextId + 1
                  /\ stats' = [stats EXCEPT ![i] = SavedStats(@)]
                  /\ Return(i, "True", "loaded")
             ELSE /\ Return(i, "False", saved.caught)
                  /\ UNCHANGED <<nextId, stats>>
    /\ UNCHANGED <<test, clock, entry, batchLen, batchEntry, gets>>

\* a step of instance i, the upstream answering with one of `responses`
StepWith(i, responses) ==
    \/ \E loc \in Locations : CallRunEtl(i, loc)
    \/ \E locations \in Lists(MaxBatch) : CallRunBatchEtl(i, locations)
    \/ Sleep(i)
    \/ \E response \in responses : Extract(i, response)
    \/ \E elapsed \in Elapsed : Transform(i, elapsed)
    \/ \E storeError \in BOOLEAN : CheckDuplicate(i, storeError)
    \/ \E storeError \in BOOLEAN : Save(i, storeError)

Step(i) == StepWith(i, Responses)

Next == \E i \in Instances : Step(i)

Spec == Init /\ [][Next]_vars

(***************************************************************************)
(* Single functions called on their own, as the __main__ blocks of the     *)
(* source files call them, against a database filled by save_weather_data. *)
(***************************************************************************)

\* the arguments fetch_weather is called with
Latitudes == {None, Num(0), Num(41900)}
Longitudes == {None, Num(0), Num(12500)}
Countries == {None, Empty, Italy}

\* what a test leaves alone: the pipelines
pipelines == <<clock, pc, stats, entry, queue, batchLen, call, batchEntry,
               req, data, rec, ret, last, tally, gets>>

\* fetch_weather(city, country, lat, lon), up to its location string; it
\* does not read the table and is tried on the empty one
TestFetchWeather(city, country, lat, lon) ==
    /\ test = NoTest
    /\ store = {}
    /\ test' = [fn |-> "fetch_weather", args |-> <<city, country, lat, lon>>,
                result |-> LocationKey(city, country, lat, lon)]
    /\ UNCHANGED <<store, nextId, pipelines>>

\* values of the record fields around the limits of the validator
Temperatures == {Num(-90100), Num(-90000), Num(25000), Num(60000), Num(60100)}
Humidities == {Num(-1000), Num(0), Num(65000), Num(100000), Num(101000)}
WindSpeeds == {Absent, Num(-100), Num(0), Num(15000), Num(500000), Num(500100)}
FeelsLikeGaps == {-30100, -30000, 0, 30000, 30100}

\* records with every required field
FullRecords ==
    UNION {{[EmptyRecord EXCEPT !.city = Rome, !.country = Italy,
                                !.condition = Sunny, !.temp_c = t,
                                !.humidity = h, !.wind_speed_kmph = w,
                                !.feels_like_c = f] :
               h \in Humidities, w \in WindSpeeds,
               f \in {Absent} \cup {Num(t[2] + g) : g \in FeelsLikeGaps}} :
           t \in Temperatures}

\* good_record and bad_record of the __main__ block, the latter with its
\* condition and a feels-like value
GoodRecord ==
    [EmptyRecord EXCEPT !.city = Rome, !.country = Italy, !.condition = Sunny,
                        !.temp_c = Num(25500), !.feels_like_c = Num(27000),
                        !.humidity = Num(65000), !.wind_speed_kmph = Num(15000)]

BadRecord ==
    [GoodRecord EXCEPT !.temp_c = Num(150000), !.feels_like_c = Num(100000),
                       !.humidity = Num(200000), !.wind_speed_kmph = Num(-10000)]

\* the two with some required fields left out or set to None
PartialRecords ==
    {[f \in DOMAIN base |-> IF f \in gone THEN blank ELSE base[f]] :
        base \in {GoodRecord, BadRecord},
        gone \in SUBSET {"city", "country", "temp_c", "humidity", "condition"} \ {{}},
        blank \in {Absent, None}}

\* validate_weather_record(record); it does not read the table and is tried
\* on the empty one
TestValidate(record) ==
    /\ test = NoTest
    /\ store = {}
    /\ test' = [fn |-> "validate_weather_record", args |-> <<record>>,
                result |-> validate_weather_record(record)]
    /\ UNCHANGED <<store, nextId, pipelines>>

\* seconds of the day the stored records and the candidates were captured at
CapturedAt == {36000, 38700, 39599, 39600, 43200}

StoredDay == 1

\* complete records of one place and day, one in another country, and two
\* either side of midnight
TimedRecords ==
    {[GoodRecord EXCEPT !.date = Date(StoredDay),
                        !.timestamp = Timestamp(StoredDay, s)] : s \in CapturedAt} \cup
    {[GoodRecord EXCEPT !.country = Str(<<"U","S">>), !.date = Date(StoredDay),
                        !.timestamp = Timestamp(StoredDay, 36000)],
     [GoodRecord EXCEPT !.date = Date(StoredDay),
                        !.timestamp = Timestamp(StoredDay, 84600)],
     [GoodRecord EXCEPT !.date = Date(StoredDay + 1),
                        !.timestamp = Timestamp(StoredDay + 1, 900)]}

\* save_weather_data(record) fills the table
TestSave(record) ==
    /\ test = NoTest
    /\ Cardinality(store) < MaxRows
    /\ \E saved \in {save_weather_data(store, nextId, record, FALSE)} :
          /\ store' = saved.rows
          /\ nextId' = IF saved.success THEN nextId + 1 ELSE nextId
    /\ UNCHANGED <<test, pipelines>>

\* check_for_duplicate(record)
TestCheckDuplicate(record) ==
    /\ test = NoTest
    /\ \E result \in check_for_duplicate(store, record) :
          test' = [fn |-> "check_for_duplicate", args |-> <<record>>,
                   result |-> result]
    /\ UNCHANGED <<store, nextId, pipelines>>

\* dirty_record of the __main__ block
DirtyRecord ==
    [EmptyRecord EXCEPT
        !.city = Str(<<" "," ","a","t","h","e","n","s"," "," ">>),
        !.country = Str(<<"G","R","E","E","C","E">>),
        !.temp_c = Num(25567), !.humidity = Num(65700),
        !.condition = Str(<<" "," ","p","a","r","t","l","y"," ",
                            "c","l","o","u","d","y"," "," ">>)]

\* field values that are raw, clean already, None or left out
DirtyCities == {Absent, None, Empty, Str(<<" "," ">>), DirtyRecord.city,
                Str(<<"N","E","W"," ","y","o","r","k">>)}
DirtyCountries == {Absent, DirtyRecord.country, Str(<<" ","i","t"," "," ">>)}
DirtyTemperatures == {Absent, None, Num(25567), Num(25250), Num(-25750),
                      Num(25600)}
DirtyHumidities == {Absent, None, Num(65700), Num(-65700), Num(65000)}
DirtyConditions == {Absent, DirtyRecord.condition, Str(<<"S","u","n","n","y">>)}
DirtyWindSpeeds == {Absent, Num(15049)}

\* records before cleaning
DirtyRecords ==
    {[EmptyRecord EXCEPT !.city = c, !.country = k, !.temp_c = t,
                         !.feels_like_c = t, !.humidity = h, !.condition = d,
                         !.wind_speed_kmph = w] :
        c \in DirtyCities, k \in DirtyCountries, t \in DirtyTemperatures,
        h \in DirtyHumidities, d \in DirtyConditions, w \in DirtyWindSpeeds}

\* clean_weather_record(record); it does not read the table and is tried on
\* the empty one
TestClean(record) ==
    /\ test = NoTest
    /\ store = {}
    /\ test' = [fn |-> "clean_weather_record", args |-> <<record>>,
                result |-> clean_weather_record(record)]
    /\ UNCHANGED <<store, nextId, pipelines>>

\* variant: `cleaned = record`, the stage works on the caller's own dict
Alias(heap, ref) == [heap |-> heap, ref |-> ref]

\* record.copy(): a new dict with the same fields and values; the heap is the
\* sequence of the dicts that exist, a reference is an index into it
Copy(heap, ref) == [heap |-> Append(heap, heap[ref]), ref |-> Len(heap) + 1]

\* a stage called on the dict at `ref`: clean_weather_record and
\* calculate_derived_fields copy it and assign the fields of the copy, which
\* they return; validate_weather_record only reads it and returns no dict
StageOnHeap(stage, heap, ref) ==
    IF stage = "validate_weather_record" THEN [heap |-> heap, ref |-> 0]
    ELSE LET copied == Copy(heap, ref)
             written == IF stage = "clean_weather_record"
                        THEN clean_weather_record(copied.heap[copied.ref])
                        ELSE calculate_derived_fields(copied.heap[copied.ref])
         IN  [heap |-> [copied.heap EXCEPT ![copied.ref] = written],
              ref |-> copied.ref]

\* a stage is called on the one dict of the caller; the heap after the call
\* is kept.  It does not read the table and is tried on the empty one.
TestStage(stage, record) ==
    /\ test = NoTest
    /\ store = {}
    /\ test' = [fn |-> "stage", args |-> <<stage, record>>,
                result |-> StageOnHeap(stage, <<record>>, 1)]
    /\ UNCHANGED <<store, nextId, pipelines>>

\* steps 2 to 4 of transform_weather_data on a record: clean, validate,
\* derive; they do not read the table and are tried on the empty one
TestTransform(record) ==
    /\ test = NoTest
    /\ store = {}
    /\ \E cleaned \in {clean_weather_record(record)} :
       \E checked \in {validate_weather_record(cleaned)} :
          test' = [fn |-> "transform_weather_data", args |-> <<record>>,
                   result |-> [record |-> calculate_derived_fields(cleaned),
                               is_valid |-> checked[1],
                               issues |-> checked[2]]]
    /\ UNCHANGED <<store, nextId, pipelines>>

\* records with temperature, humidity and wind speed at and next to the
\* thresholds of the labels; humidity or wind speed may be left out
MeasuredRecords ==
    {[EmptyRecord EXCEPT !.temp_c = Num(t), !.humidity = h,
                         !.wind_speed_kmph = w] :
        t \in {-100, 0, 5000, 9900, 10000, 19900, 20000, 23000, 26000, 26100,
               29900, 30000, 30100, 32000, 34900, 35000},
        h \in {Absent} \cup {Num(n) : n \in {29000, 30000, 60000, 61000, 65000,
                                            70000, 71000, 75000}},
        w \in {Absent} \cup {Num(n) : n \in {0, 11900, 12000, 25000, 29900,
                                            30000, 49900, 50000}}}

\* calculate_derived_fields(record); it does not read the table and is tried
\* on the empty one
TestDerive(record) ==
    /\ test = NoTest
    /\ store = {}
    /\ test' = [fn |-> "calculate_derived_fields", args |-> <<record>>,
                result |-> calculate_derived_fields(record)]
    /\ UNCHANGED <<store, nextId, pipelines>>

TestNext ==
    \/ \E country \in Countries, lat \in Latitudes, lon \in Longitudes :
          TestFetchWeather(Rome, country, lat, lon)
    \/ \E record \in DirtyRecords : TestClean(record)
    \/ \E record \in MeasuredRecords : TestDerive(record)
    \/ \E stage \in {"clean_weather_record", "validate_weather_record",
                      "calculate_derived_fields"},
          record \in {DirtyRecord, GoodRecord, BadRecord} :
          TestStage(stage, record)
    \/ \E record \in {DirtyRecord, GoodRecord, BadRecord} : TestTransform(record)
    \/ \E record \in FullRecords \cup PartialRecords : TestValidate(record)
    \/ \E record \in TimedRecords : TestSave(record)
    \/ \E record \in TimedRecords : TestCheckDuplicate(record)

TestSpec == Init /\ [][TestNext]_vars

\* the calls are made one after another: an instance takes a step only while
\* no other instance is inside run_etl or run_batch_etl
Alone(i) == \A j \in Instances \ {i} : pc[j] = "idle"

SeqStep(i) ==
    \/ \E loc \in Locations : Alone(i) /\ CallRunEtl(i, loc)
    \/ \E locations \in Lists(MaxBatch) : Alone(i) /\ CallRunBatchEtl(i, locations)
    \/ Alone(i) /\ Sleep(i)
    \/ \E response \in Responses : Alone(i) /\ Extract(i, response)
    \/ \E elapsed \in Elapsed : Alone(i) /\ Transform(i, elapsed)
    \/ \E storeError \in BOOLEAN : Alone(i) /\ CheckDuplicate(i, storeError)
    \/ \E storeError \in BOOLEAN : Alone(i) /\ Save(i, storeError)

SeqNext == \E i \in Instances : SeqStep(i)

SeqSpec == Init /\ [][SeqNext]_vars

\* the same pipelines against the upstream of ElsewhereResponses
ElsewhereNext == \E i \in Instances : StepWith(i, ElsewhereResponses)

ElsewhereSpec == Init /\ [][ElsewhereNext]_vars

(***************************************************************************)
(* Properties.                                                             *)
(***************************************************************************)
\* a run_etl call of instance i has ended and no other has begun since
Finished(i) == pc[i] \in {"idle", "sleep"} /\ last[i] # "none"

\* the last thing the caller invoked on instance i was run_batch_etl, and it
\* has ended
BatchEnded(i) == call[i] = "run_batch_etl" /\ pc[i] = "idle"

\* run_etl calls of the current / last batch of instance i that ended as o
BatchTally(i, o) == tally[i][o] - batchEntry[i].tally[o]

\* what the ended call added to counter c of instance i
Added(i, c) == stats[i][c] - entry[i].stats[c]

\* seconds between the captured-at timestamps of two records
Gap(r1, r2) == Abs(StrftimeS(r1.timestamp) - StrftimeS(r2.timestamp))

SameCityCountry(r1, r2) == r1.city = r2.city /\ r1.country = r2.country

\* C1: load_weather_data inserts a record only if validation returned
\* is_valid = true and the duplicate check did not flag it; when either fails
\* it writes nothing to the store and returns False.
C1_LoadGate ==
    [][\A i \in Instances :
          /\ (/\ pc[i] = "dupcheck" /\ pc'[i] # "dupcheck" /\ ret'[i] # "raised"
              /\ (~rec[i].is_valid \/ DuplicateRows(store, rec[i].record) # {}))
                => (store' = store /\ ret'[i] = "False")
          /\ (store' # store /\ pc'[i] # pc[i])
                => (/\ pc[i] = "load"
                    /\ rec[i].is_valid
                    /\ ~AnyDuplicate(rec[i].issues))]_vars

\* a flagged record was skipped with False while another one is stored
C1_Witness ==
    \E i \in Instances :
        /\ Finished(i) /\ last[i] = "duplicate" /\ ret[i] = "False"
        /\ store # {}

\* C2 as stated: with the calls made one after another, the store never holds
\* two records of the same city, country and observed-date captured within
\* one hour (at most 3600 seconds) of each other, and a run for a location
\* that has a record captured within the hour leaves the store unchanged.
C2_WithinOneHour ==
    /\ [](\A r1, r2 \in store :
            (r1 # r2 /\ SameCityCountry(r1, r2) /\ r1.date = r2.date)
                => Gap(r1, r2) > DupWindowSecs)
    /\ [][\A i \in Instances :
            (/\ pc[i] \in {"dupcheck", "load"}
             /\ \E row \in store : /\ SameCityCountry(row, rec[i].record)
                                   /\ Gap(row, rec[i].record) <= DupWindowSecs)
                => store' = store]_vars

\* C2 as amended: with the calls made one after another, the store never
\* holds two records of the same city, country and observed-date captured
\* less than one hour apart, and a run whose record has the city, country and
\* observed-date of a stored record captured less than one hour before it
\* leaves the store unchanged.
C2_LessThanOneHour ==
    /\ [](\A r1, r2 \in store :
            (r1 # r2 /\ SameCityCountry(r1, r2) /\ r1.date = r2.date)
                => Gap(r1, r2) >= DupWindowSecs)
    /\ [][\A i \in Instances :
            (/\ pc[i] \in {"dupcheck", "load"}
             /\ \E row \in store : /\ SameCityCountry(row, rec[i].record)
                                   /\ row.date = rec[i].record.date
                                   /\ Gap(row, rec[i].record) < DupWindowSecs)
                => store' = store]_vars

\* instance 1 loaded a record and its next run, half an hour later on the
\* same day, was suppressed as a duplicate
C2_Witness ==
    /\ tally[1]["loaded"] = 1
    /\ tally[1]["duplicate"] = 1
    /\ Finished(1) /\ last[1] = "duplicate"
    /\ clock = StartClock + 3600
    /\ \E row \in store : Gap(row, [timestamp |-> FormatTimestamp(clock)]) = 1800

\* C3: in every reachable state of the store no two rows share the same
\* (city, country, observed-date, captured-at), under every interleaving.
C3_UniqueKey ==
    \A r1, r2 \in store :
        (/\ r1.city = r2.city /\ r1.country = r2.country
         /\ r1.date = r2.date /\ r1.timestamp = r2.timestamp) => r1 = r2

\* an INSERT with the key of a stored row was rejected
C3_Witness ==
    \E i \in Instances : Finished(i) /\ last[i] = "rejected" /\ store # {}

\* C4: when an instance that passed the duplicate check inserts a record
\* whose uniqueness key another instance has stored meanwhile, the store
\* rejects the insert: save_weather_data reports False without raising,
\* run_etl returns False and the store keeps a single row for the key.
C4_RaceRejected ==
    [][\A i \in Instances :
          (/\ pc[i] = "load" /\ pc'[i] # "load"
           /\ \E row \in store : SameKey(row, rec[i].record))
             => (/\ store' = store
                 /\ ret'[i] = "False"
                 /\ Cardinality({row \in store' : SameKey(row, rec[i].record)}) = 1)]_vars

\* two instances raced on one key: one loaded, the other was rejected
C4_Witness ==
    \E i, j \in Instances :
        /\ i # j
        /\ Finished(i) /\ last[i] = "loaded" /\ ret[i] = "True"
        /\ Finished(j) /\ last[j] = "rejected" /\ ret[j] = "False"
        /\ Cardinality(store) = 1

\* C5: no stage error escapes the orchestrator: run_etl never raises, and
\* run_batch_etl processes every location of its list, so that attempted
\* increases by len(locations).
C5_NoErrorEscapes ==
    \A i \in Instances :
        /\ ret[i] # "raised"
        /\ BatchEnded(i)
              => stats[i].attempted = batchEntry[i].stats.attempted + batchLen[i]

\* the outcomes C6 lists
ListedOutcomes == {"fetch_failed", "parse_failed", "invalid", "duplicate",
                   "invalid_duplicate", "rejected", "loaded"}

\* C6: every call of run_etl increments attempted by one and exactly one of
\* succeeded, failed, validation_errors, duplicates by one, for every outcome
\* of the location.
C6_ExactlyOneCounter ==
    \A i \in Instances :
        (Finished(i) /\ last[i] \in ListedOutcomes)
            => /\ Added(i, "attempted") = 1
               /\ Added(i, "succeeded") + Added(i, "failed")
                    + Added(i, "validation_errors") + Added(i, "duplicates") = 1

\* the outcomes of a record that failed validation
InvalidOutcomes == {"invalid", "invalid_duplicate"}

\* C7 as stated: when the record fails validation, validation_errors and
\* failed are each incremented by one and succeeded is not incremented.
C7_InvalidCountedFailed ==
    \A i \in Instances :
        (Finished(i) /\ last[i] \in InvalidOutcomes)
            => /\ Added(i, "validation_errors") = 1
               /\ Added(i, "failed") = 1
               /\ Added(i, "succeeded") = 0

\* C7 as amended: when the record fails validation, neither failed nor
\* succeeded is incremented; validation_errors is incremented by one when
\* run_etl returns (it returns False), and not at all when the duplicate
\* query raises.
C7_InvalidNotFailed ==
    [][\A i \in Instances :
          (pc[i] = "dupcheck" /\ pc'[i] # "dupcheck" /\ ~rec[i].is_valid)
             => /\ stats'[i].failed = entry[i].stats.failed
                /\ stats'[i].succeeded = entry[i].stats.succeeded
                /\ \/ /\ ret'[i] = "False"
                      /\ stats'[i].validation_errors
                            = entry[i].stats.validation_errors + 1
                   \/ /\ ret'[i] = "raised"
                      /\ stats'[i].validation_errors
                            = entry[i].stats.validation_errors]_vars

\* a call ended on an invalid record: a validation error, not a failure
C7_Witness ==
    \E i \in Instances :
        /\ Finished(i) /\ last[i] = "invalid" /\ ret[i] = "False"
        /\ Added(i, "validation_errors") = 1
        /\ Added(i, "failed") = 0

\* C8: for a freshly constructed pipeline and a batch of N locations of which
\* exactly one fails extraction and the other N-1 are loaded, after
\* run_batch_etl failed = 1, succeeded = N-1 and attempted = N.
C8_BatchOfN ==
    \A i \in Instances :
        (/\ BatchEnded(i)
         /\ batchLen[i] >= 1
         /\ batchEntry[i].stats = ZeroStats
         /\ batchEntry[i].tally = ZeroTally
         /\ BatchTally(i, "fetch_failed") = 1
         /\ BatchTally(i, "loaded") = batchLen[i] - 1)
            => /\ stats[i].failed = 1
               /\ stats[i].succeeded = batchLen[i] - 1
               /\ stats[i].attempted = batchLen[i]

\* a fresh pipeline ran a batch of two: the first location failed extraction,
\* the second was loaded
C8_Witness ==
    /\ BatchEnded(1)
    /\ batchLen[1] = 2
    /\ batchEntry[1].stats = ZeroStats
    /\ batchEntry[1].tally = ZeroTally
    /\ BatchTally(1, "fetch_failed") = 1
    /\ BatchTally(1, "loaded") = 1
    /\ last[1] = "loaded"

\* C9: the statistics are reset per run: after a batch of at least one
\* location that ran to its end, attempted equals the number of locations
\* of that batch only.
C9_ResetPerBatch ==
    \A i \in Instances :
        (BatchEnded(i) /\ batchLen[i] >= 1 /\ BatchTally(i, "raised") = 0)
            => stats[i].attempted = batchLen[i]

\* C10: each call of run_etl issues at most one GET, and a batch of N
\* locations issues exactly N GETs.
C10_OneGetPerLocation ==
    \A i \in Instances :
        /\ gets[i] - entry[i].gets <= 1
        /\ BatchEnded(i) => gets[i] - batchEntry[i].gets = batchLen[i]

\* the answers that are a failure of the extraction stage: a status other
\* than 200, a timeout, a connection failure, a body that is not JSON, and a
\* JSON body of unexpected shape (an empty "nearest_area" list)
FetchFailures ==
    {r \in Responses :
        \/ r.kind \in {"status", "timeout", "connection", "badjson"}
        \/ /\ r.kind = "ok"
           /\ Has(r.body, "nearest_area")
           /\ Len(r.body.nearest_area[2]) = 0}

\* C11: each extraction-stage failure is terminal for the location: run_etl
\* returns False, failed is incremented by exactly one and no other counter
\* changes, the duplicate check and the loader are not reached, and the
\* store is left unchanged; a body of unexpected shape that only the parse
\* rejects (no "current_condition") ends the call the same way.
C11_FetchFailureTerminal ==
    [][\A i \in Instances :
          /\ \A response \in FetchFailures :
                Extract(i, response)
                   => /\ ret'[i] = "False"
                      /\ pc'[i] \in {"idle", "sleep"}
                      /\ stats'[i] = [stats[i] EXCEPT !.failed = @ + 1]
                      /\ store' = store
          /\ (/\ pc[i] = "transform" /\ pc'[i] # "transform"
              /\ ~Has(data[i], "current_condition"))
                => /\ ret'[i] = "False"
                   /\ pc'[i] \in {"idle", "sleep"}
                   /\ stats'[i] = [stats[i] EXCEPT !.failed = @ + 1]
                   /\ store' = store]_vars

\* calls ended on a failed fetch and on a failed parse, nothing stored
C11_Witness ==
    /\ tally[1]["fetch_failed"] = 1
    /\ tally[1]["parse_failed"] = 1
    /\ Finished(1) /\ ret[1] = "False"
    /\ stats[1].failed = 2 /\ stats[1].attempted = 2
    /\ store = {}

\* a row with a value in every column
RowComplete(row) ==
    \A c \in {"city", "country", "date", "temp_c", "feels_like_c", "condition",
              "humidity", "wind_speed_kmph", "timestamp"} :
        row[c][1] \notin {"absent", "none"}

\* C12: run_etl returns True if and only if the call inserted exactly one
\* new complete row; a call that returns False has written nothing to the
\* store, at no step of it.
C12_TrueIffOneRow ==
    [][\A i \in Instances :
          pc'[i] # pc[i]
             => /\ (ret'[i] = "True")
                      <=> (/\ store \subseteq store'
                           /\ Cardinality(store' \ store) = 1
                           /\ \A row \in store' \ store : RowComplete(row))
                /\ ret'[i] # "True" => store' = store]_vars

\* one call returned True for the one row of the store, after a call of the
\* same instance that returned False
C12_Witness ==
    /\ Finished(1) /\ ret[1] = "True" /\ last[1] = "loaded"
    /\ tally[1]["invalid"] = 1
    /\ Cardinality(store) = 1
    /\ \A row \in store : RowComplete(row)

\* C13: every record the pipeline persists has a non-empty city, a non-empty
\* country and a present temperature, humidity and condition, whatever the
\* upstream answered.
C13_StoredRecordsNamed ==
    \A row \in store :
        /\ Truthy(row.city)
        /\ Truthy(row.country)
        /\ \A c \in {"temp_c", "humidity", "condition"} :
              row[c][1] \notin {"absent", "none"}

\* the first "nearest_area" entry of the body fetch_weather returned
ReportedArea(d) == d.nearest_area[2][1]

\* C14: when the caller supplied a country and the upstream reports another
\* one, fetch_weather still returns the body, and a record that is persisted
\* carries the city and country the upstream reported, normalized, not the
\* requested ones.
C14_ResolvedLocationStored ==
    [][\A i \in Instances :
          /\ \A response \in ElsewhereResponses :
                (/\ Extract(i, response)
                 /\ response.kind = "ok"
                 /\ LocationMismatch(req[i].country,
                                     response.body.nearest_area[2][1].country))
                   => pc'[i] = "transform"
          /\ (/\ pc[i] = "load" /\ pc'[i] # "load" /\ store' # store
              /\ Has(data[i], "nearest_area")
              /\ LocationMismatch(req[i].country, ReportedArea(data[i]).country))
                => \A row \in store' \ store :
                      /\ row.city = CleanTitle(ReportedArea(data[i]).areaName)
                      /\ row.country = CleanStrip(ReportedArea(data[i]).country)
                      /\ row.country # req[i].country]_vars

\* a run for Rome, IT was resolved to Rome, US and loaded as such
C14_Witness ==
    \E i \in Instances :
        /\ Finished(i) /\ last[i] = "loaded" /\ ret[i] = "True"
        /\ \E row \in store :
              /\ row.id = nextId - 1
              /\ row.city = Str(<<"R","o","m","e">>)
              /\ row.country = Str(<<"U","S">>)

\* C15: the location of the request is "lat,lon" when both coordinates are
\* given, 0 included; otherwise "city,country" when a country is given;
\* otherwise the city alone.  One coordinate without the other never gives
\* a coordinate location.
C15_KeyPrecedence ==
    test.fn = "fetch_weather"
       => LET city == test.args[1]
              country == test.args[2]
              lat == test.args[3]
              lon == test.args[4]
              given == lat \in Latitudes \ {None} /\ lon \in Longitudes \ {None}
          IN  /\ given => test.result = <<lat, Comma, lon>>
              /\ (~given /\ country = Italy)
                    => test.result = <<city, Comma, country>>
              /\ (~given /\ country \in {None, Empty}) => test.result = <<city>>
              /\ ~given => \A k \in 1..Len(test.result) :
                              test.result[k][1] # "num"

\* latitude 0 and longitude 0 were given with a country, and the location
\* is "0,0"
C15_Witness ==
    /\ test.fn = "fetch_weather"
    /\ test.args = <<Rome, Italy, Num(0), Num(0)>>
    /\ test.result = <<Num(0), Comma, Num(0)>>

\* the required fields a record lacks
Gone(record) == {required_fields[k] : k \in {n \in 1..Len(required_fields) :
                                                IsMissing(record, required_fields[n])}}

\* C16: a record that lacks a required field is invalid and its issues are
\* the missing-field issues alone, one for each field it lacks, whatever the
\* other fields hold; a record that lacks only its condition gets exactly one
\* issue, naming condition.
C16_MissingFieldsOnly ==
    test.fn = "validate_weather_record"
       => LET record == test.args[1]
              issues == test.result[2]
          IN  Gone(record) # {}
                 => /\ test.result[1] = FALSE
                    /\ Len(issues) = Cardinality(Gone(record))
                    /\ \A k \in 1..Len(issues) :
                          /\ issues[k].msg = "Missing required field"
                          /\ issues[k].arg \in Gone(record)
                    /\ \A f \in Gone(record) :
                          \E k \in 1..Len(issues) : issues[k].arg = f
                    /\ Gone(record) = {"condition"}
                          => issues = <<Issue("Missing required field", "condition")>>

\* bad_record without its condition, its temperature, humidity and wind
\* speed out of range: one issue
C16_Witness ==
    /\ test.fn = "validate_weather_record"
    /\ test.args = <<[BadRecord EXCEPT !.condition = Absent]>>
    /\ test.result = <<FALSE, <<Issue("Missing required field", "condition")>> >>

\* C17: validate_weather_record returns is_valid = true exactly when its
\* list of issues is empty.
C17_ValidIffNoIssues ==
    test.fn = "validate_weather_record"
       => (test.result[1] = TRUE <=> test.result[2] = <<>>)

\* a record at 25 degrees that feels like 25 is valid, with no issue
C17_Witness ==
    /\ test.fn = "validate_weather_record"
    /\ test.args[1].temp_c = Num(25000)
    /\ test.args[1].feels_like_c = Num(25000)
    /\ test.result = <<TRUE, <<>> >>

\* the record has a feels-like value more than 30 degrees from its temperature
WideGap(record) ==
    /\ Has(record, "feels_like_c")
    /\ Abs(record.feels_like_c[2] - record.temp_c[2]) > 30000

\* C18: a record with every required field, a wind speed and a feels-like
\* gap of at most 30 is valid exactly when -90 <= temperature <= 60,
\* 0 <= humidity <= 100 and 0 <= wind speed <= 500, the limits included.
C18_RangesDecide ==
    test.fn = "validate_weather_record"
       => LET record == test.args[1]
          IN  (/\ Gone(record) = {}
               /\ Has(record, "wind_speed_kmph")
               /\ ~WideGap(record))
                 => (test.result[1] = TRUE
                       <=> /\ -90000 <= record.temp_c[2]
                           /\ record.temp_c[2] <= 60000
                           /\ 0 <= record.humidity[2]
                           /\ record.humidity[2] <= 100000
                           /\ 0 <= record.wind_speed_kmph[2]
                           /\ record.wind_speed_kmph[2] <= 500000)

\* a record at -90 degrees, humidity 100 and wind speed 500 is valid
C18_Witness ==
    /\ test.fn = "validate_weather_record"
    /\ test.args[1].temp_c = Num(-90000)
    /\ test.args[1].humidity = Num(100000)
    /\ test.args[1].wind_speed_kmph = Num(500000)
    /\ test.args[1].feels_like_c = Num(-60000)
    /\ test.result[1] = TRUE

\* a complete record with temperature, humidity and wind speed in range,
\* whose feels-like value is more than 30 degrees from its temperature
OnlyWideGap(record) ==
    /\ Gone(record) = {}
    /\ Has(record, "wind_speed_kmph")
    /\ -90000 <= record.temp_c[2] /\ record.temp_c[2] <= 60000
    /\ 0 <= record.humidity[2] /\ record.humidity[2] <= 100000
    /\ 0 <= record.wind_speed_kmph[2] /\ record.wind_speed_kmph[2] <= 500000
    /\ WideGap(record)

\* the one issue of the feels-like check of a record
GapIssue(record) ==
    Issue("Feels like temperature differs from actual",
          Num(Abs(record.feels_like_c[2] - record.temp_c[2])))

\* C19 as stated: a record whose only anomaly is a feels-like gap above 30
\* gets the gap as an issue and stays valid, so that the loader takes it.
C19_GapIsSoft ==
    (test.fn = "validate_weather_record" /\ OnlyWideGap(test.args[1]))
       => /\ test.result[2] = <<GapIssue(test.args[1])>>
          /\ test.result[1] = TRUE
          /\ ShouldSave(test.result[1], test.result[2])

\* C19: a record whose only anomaly is a feels-like gap above 30 gets the gap
\* as its one issue and is invalid, so that the loader does not take it.
C19_GapInvalidates ==
    (test.fn = "validate_weather_record" /\ OnlyWideGap(test.args[1]))
       => /\ test.result[2] = <<GapIssue(test.args[1])>>
          /\ test.result[1] = FALSE
          /\ ~ShouldSave(test.result[1], test.result[2])

\* a record at 25 degrees that feels like -5.1 was checked
C19_Witness ==
    /\ test.fn = "validate_weather_record"
    /\ OnlyWideGap(test.args[1])
    /\ test.args[1].temp_c = Num(25000)
    /\ test.args[1].feels_like_c = Num(-5100)
    /\ test.result[1] = FALSE

\* the stored rows of the record's city, country and observed date that were
\* captured at most `secs` seconds from it
Near(record, secs) ==
    {row \in store : /\ SameCityCountry(row, record)
                     /\ row.date = record.date
                     /\ Gap(row, record) <= secs}

\* check_for_duplicate(record) returns now, (true, id) with the id of one of
\* the rows when there are any, (false, None) when there are none, and the
\* table is as it was
Reports(record, rows) ==
    TestCheckDuplicate(record)
       => /\ rows # {} => /\ test'.result[1] = TRUE
                          /\ test'.result[2] \in {Num(row.id) : row \in rows}
          /\ rows = {} => test'.result = <<FALSE, None>>
          /\ store' = store

\* C20 as stated: check_for_duplicate reports (true, id) exactly when the
\* table holds a record of the same city, country and observed date captured
\* at most 3600 seconds from the candidate, and does not change the table.
C20_WithinOneHour ==
    [][\A record \in TimedRecords :
          Reports(record, Near(record, DupWindowSecs))]_vars

\* C20: check_for_duplicate reports (true, id) exactly when the table holds a
\* record of the same city, country and observed date captured less than
\* 3600 seconds from the candidate, and does not change the table.
C20_LessThanOneHour ==
    [][\A record \in TimedRecords :
          Reports(record, Near(record, DupWindowSecs - 1))]_vars

\* a candidate captured 45 minutes after the stored record is its duplicate
C20_Witness ==
    /\ test.fn = "check_for_duplicate"
    /\ test.args[1].timestamp = Timestamp(StoredDay, 38700)
    /\ \E row \in store :
          /\ row.timestamp = Timestamp(StoredDay, 36000)
          /\ SameCityCountry(row, test.args[1])
          /\ Cardinality(store) = 1
          /\ test.result = <<TRUE, Num(row.id)>>

\* C21: cleaning a cleaned record changes nothing:
\* clean_weather_record(clean_weather_record(r)) = clean_weather_record(r).
C21_CleanIdempotent ==
    test.fn = "clean_weather_record"
       => clean_weather_record(test.result) = test.result

\* dirty_record was cleaned, and its city, temperature and humidity changed
C21_Witness ==
    /\ test.fn = "clean_weather_record"
    /\ test.args[1].city = DirtyRecord.city
    /\ test.args[1].temp_c = Num(25567)
    /\ test.args[1].humidity = Num(65700)
    /\ test.result.city = Str(<<"A","t","h","e","n","s">>)
    /\ test.result.temp_c = Num(25600)
    /\ test.result.humidity = Num(65000)

\* C22: the record with only city "  athens  ", country "GREECE", temperature
\* 25.567, humidity 65.7 and condition "  partly cloudy  " is normalized to
\* Athens, GREECE, 25.6, 65, Partly Cloudy; the normalized record is valid;
\* its heat category is Warm and its comfort level Moderate.
C22_AthensScenario ==
    (test.fn = "transform_weather_data" /\ test.args = <<DirtyRecord>>)
       => /\ test.result.record.city = Str(<<"A","t","h","e","n","s">>)
          /\ test.result.record.country = Str(<<"G","R","E","E","C","E">>)
          /\ test.result.record.temp_c = Num(25600)
          /\ test.result.record.humidity = Num(65000)
          /\ test.result.record.condition =
                Str(<<"P","a","r","t","l","y"," ","C","l","o","u","d","y">>)
          /\ test.result.is_valid = TRUE
          /\ test.result.record.heat_category = Label("Warm")
          /\ test.result.record.comfort_level = Label("Moderate")

\* C23: the comfort level is Comfortable for 20 <= temp <= 26 with
\* 30 <= humidity <= 60; otherwise Uncomfortable for temp > 30 or
\* humidity > 70; otherwise Cold for temp < 10; otherwise Moderate.  So
\* temp < 10 with humidity > 70 is Uncomfortable, and 20 <= temp <= 26 with
\* humidity in 61..70 is Moderate.
C23_ComfortRuleOrder ==
    (/\ test.fn = "calculate_derived_fields"
     /\ Has(test.args[1], "humidity"))
       => LET temp == test.args[1].temp_c[2]
              humidity == test.args[1].humidity[2]
              level == test.result.comfort_level
              ideal == /\ 20000 <= temp /\ temp <= 26000
                       /\ 30000 <= humidity /\ humidity <= 60000
              harsh == temp > 30000 \/ humidity > 70000
          IN  /\ ideal => level = Label("Comfortable")
              /\ (~ideal /\ harsh) => level = Label("Uncomfortable")
              /\ (~ideal /\ ~harsh /\ temp < 10000) => level = Label("Cold")
              /\ (~ideal /\ ~harsh /\ temp >= 10000) => level = Label("Moderate")
              /\ (temp < 10000 /\ humidity > 70000)
                    => level = Label("Uncomfortable")
              /\ (/\ 20000 <= temp /\ temp <= 26000
                  /\ 61000 <= humidity /\ humidity <= 70000)
                    => level = Label("Moderate")

\* 5 degrees at humidity 71 is Uncomfortable
C23_Witness ==
    /\ test.fn = "calculate_derived_fields"
    /\ test.args[1].temp_c = Num(5000)
    /\ test.args[1].humidity = Num(71000)
    /\ test.result.comfort_level = Label("Uncomfortable")

\* C24: the heat category is Extreme Heat for temp >= 35, Hot for >= 30, Warm
\* for >= 20, Mild for >= 10, Cool for >= 0 and Cold below 0; the wind
\* category is Calm for wind < 12, Breezy for < 30, Windy for < 50 and Very
\* Windy otherwise; each threshold value is in the higher class.
C24_HeatAndWindClasses ==
    test.fn = "calculate_derived_fields"
       => LET temp == test.args[1].temp_c[2]
              heat == test.result.heat_category
              wind == test.args[1].wind_speed_kmph
              blows == test.result.wind_category
          IN  /\ temp >= 35000 <=> heat = Label("Extreme Heat")
              /\ (30000 <= temp /\ temp < 35000) <=> heat = Label("Hot")
              /\ (20000 <= temp /\ temp < 30000) <=> heat = Label("Warm")
              /\ (10000 <= temp /\ temp < 20000) <=> heat = Label("Mild")
              /\ (0 <= temp /\ temp < 10000) <=> heat = Label("Cool")
              /\ temp < 0 <=> heat = Label("Cold")
              /\ Has(test.args[1], "wind_speed_kmph")
                    => /\ wind[2] < 12000 <=> blows = Label("Calm")
                       /\ (12000 <= wind[2] /\ wind[2] < 30000)
                             <=> blows = Label("Breezy")
                       /\ (30000 <= wind[2] /\ wind[2] < 50000)
                             <=> blows = Label("Windy")
                       /\ wind[2] >= 50000 <=> blows = Label("Very Windy")

\* 35 degrees is Extreme Heat and a wind of 12 is Breezy
C24_Witness ==
    /\ test.fn = "calculate_derived_fields"
    /\ test.args[1].temp_c = Num(35000)
    /\ test.args[1].wind_speed_kmph = Num(12000)
    /\ test.result.heat_category = Label("Extreme Heat")
    /\ test.result.wind_category = Label("Breezy")

\* the place of each stage of run_etl in their order; the transform stage
\* parses, cleans, validates and derives in one step
StageRank ==
    [stage \in {"extract", "transform", "dupcheck", "load"} |->
        CASE stage = "extract" -> 1
          [] stage = "transform" -> 2
          [] stage = "dupcheck" -> 3
          [] stage = "load" -> 4]

\* instance i is between two run_etl calls
Outside(i) == pc[i] \in {"idle", "sleep"}

\* the ways a run ends without a row, by skipping the record or by failing
SkippedOutcomes == {"duplicate", "invalid", "invalid_duplicate"}
FailedOutcomes == {"fetch_failed", "parse_failed", "rejected", "store_error",
                   "raised"}

Pauses(i) == stats[i].attempted - batchEntry[i].stats.attempted - 1

\* C26: run_batch_etl takes the locations one after another in list order:
\* the run for the next location is entered only from the pause that follows
\* the finished run of the one before it, and a batch of N >= 1 locations has
\* made exactly N - 1 pauses when it ends.
C26_BatchInOrder ==
    [][\A i \in BatchInstances :
          /\ (pc[i] = "sleep" /\ pc'[i] # "sleep")
                => /\ last[i] # "none"
                   /\ pc'[i] = "extract"
                   /\ req'[i] = Head(queue[i])
                   /\ queue'[i] = Tail(queue[i])
          /\ (/\ call[i] = "run_batch_etl" /\ batchLen[i] >= 1
              /\ pc[i] \notin {"idle", "sleep"} /\ pc'[i] = "idle")
                => Pauses(i)' = batchLen[i] - 1]_vars

\* C27: after clean_weather_record, validate_weather_record or
\* calculate_derived_fields returns, the caller's record has the fields and
\* values it had before the call; clean_weather_record and
\* calculate_derived_fields return another dict, which holds their result.
C27_InputUntouched ==
    test.fn = "stage"
       => LET stage == test.args[1]
              record == test.args[2]
              after == test.result
          IN  /\ after.heap[1] = record
              /\ stage = "clean_weather_record"
                    => /\ after.ref # 1
                       /\ after.heap[after.ref] = clean_weather_record(record)
              /\ stage = "calculate_derived_fields"
                    => /\ after.ref # 1
                       /\ after.heap[after.ref] = calculate_derived_fields(record)

\* dirty_record was cleaned: the returned dict has the city Athens and the
\* caller's dict still "  athens  "
C27_Witness ==
    /\ test.fn = "stage"
    /\ test.args = <<"clean_weather_record", DirtyRecord>>
    /\ test.result.heap[1].city = DirtyRecord.city
    /\ test.result.heap[test.result.ref].city = Str(<<"A","t","h","e","n","s">>)

\* C28: with two pipeline instances working on the same location in
\* interleaved steps, the store never holds two records of the same city,
\* country and observed-date captured less than one hour apart.
C28_NoNearDuplicatesInterleaved ==
    \A r1, r2 \in store :
        (/\ r1.id # r2.id
         /\ SameCityCountry(r1, r2)
         /\ r1.date = r2.date)
            => Gap(r1, r2) >= DupWindowSecs

\* C29: when the response has no "nearest_area", the record run_etl builds
\* has the requested city and the requested country, normalized, as its
\* identity, and so has the row stored for it.
C29_FallsBackToRequested ==
    \A i \in Instances :
        (/\ pc[i] \in {"dupcheck", "load"}
         /\ ~Has(data[i], "nearest_area"))
            => /\ rec[i].record.city = CleanTitle(req[i].city)
               /\ rec[i].record.country = CleanStrip(req[i].country)

\* C30: the counters of an instance never decrease; succeeded is the number
\* of its run_etl calls that returned True, each of which inserted one row,
\* so that the succeeded counters add up to the rows of the store; and
\* succeeded + failed <= attempted.
C30_CountersConsistent ==
    /\ [](/\ \A i \in Instances :
                /\ stats[i].succeeded = tally[i]["loaded"]
                /\ stats[i].succeeded + stats[i].failed <= stats[i].attempted
          /\ SumOver([i \in Instances |-> stats[i].succeeded], Instances)
                = Cardinality(store))
    /\ [][\A i \in Instances :
            /\ \A c \in DOMAIN stats[i] : stats'[i][c] >= stats[i][c]
            /\ ret'[i] = "True" /\ ret[i] # "True"
                  => /\ stats'[i].succeeded = stats[i].succeeded + 1
                     /\ Cardinality(store') = Cardinality(store) + 1]_vars

\* instance 1 made two calls: one was loaded, one failed
C30_Witness ==
    /\ pc[1] = "idle"
    /\ stats[1].attempted = 2
    /\ stats[1].succeeded = 1
    /\ stats[1].failed = 1
    /\ Cardinality(store) = 1

====
